---- MODULE Spec2Model ----
(***************************************************************************)
(* State-machine model of src/certs.rs: the DynamicCertResolver (two       *)
(* DashMap cache tiers, the .odd_box_cache directory, resolve and          *)
(* generate_cert_if_not_exist run by concurrent handshakes) and the        *)
(* PEM/key codec functions.                                                *)
(***************************************************************************)
EXTENDS Integers, Sequences, FiniteSets, TLC

(* ------------------------------ bounds --------------------------------- *)
\* concurrent handshake contexts calling resolve
Threads == {1, 2}
\* resolve calls begun in one behaviour
MaxCalls == 2
\* successful rcgen generations (each yields fresh material)
MaxGenerations == 2
\* environment disturbances: failed operations (create_dir_all, rcgen,
\* File::create, write_all, File::open) and operator changes to the files
MaxDisturbances == 1
\* PEM blocks in an input of the codec specification
MaxBlocks == 2

Hosts == {"a.test"}

(* ------------------------------ values --------------------------------- *)
\* Option<T>: None is the empty sequence, Some(x) the one-element sequence.
None == << >>
Some(x) == << x >>

\* DER payloads are pairs <<origin, n>>: <<"rcgen", g>> is what generation g
\* produced (its certificate and its key both carry g), the others are
\* material that comes from outside the resolver.
Der(origin, n) == << origin, n >>
PinnedDer == Der("pinned", 1)
OtherDer == Der("pinned", 2)
UnsupportedDer == Der("unsupported", 1)
IssuedDerA == Der("issued", 1)
IssuedDerB == Der("issued", 2)
InsertedDer == Der("inserted", 1)

\* One PEM section: its label, whether its base64 body decodes, its payload.
Block(label, b64ok, der) == [label |-> label, b64ok |-> b64ok, der |-> der]
CertBlock(der) == Block("CERTIFICATE", TRUE, der)
KeyBlock(der) == Block("PRIVATE KEY", TRUE, der)

\* Result<T,E>
Ok(v) == [ok |-> TRUE, val |-> v, err |-> "-"]
Err(e) == [ok |-> FALSE, val |-> << >>, err |-> e]

\* CertifiedKey behind an Arc: the chain, the key, and the Arc::new site
\* that allocated it (the identity of the shared bundle).
CertifiedKey(chain, key, arc) == [chain |-> chain, key |-> key, arc |-> arc]

(* ------------------------------ codec ---------------------------------- *)
\* Section labels rustls_pemfile decodes; a section with any other label is
\* passed over without being decoded.
KnownLabels == {"CERTIFICATE", "PRIVATE KEY", "RSA PRIVATE KEY"}

\* The iterator rustls_pemfile builds over a reader for the wanted label: one
\* item per known section, Err when its body does not decode, Ok(der) when it
\* decodes and carries the wanted label; decoded sections of another known
\* label yield nothing.
pemfile_items(text, label) ==
    LET hit == SelectSeq(text, LAMBDA b :
                   b.label \in KnownLabels /\ (~b.b64ok \/ b.label = label))
    IN  [i \in 1 .. Len(hit) |->
            IF hit[i].b64ok THEN Ok(hit[i].der) ELSE Err("Base64Decode")]

\* rustls_pemfile::certs(&mut reader)
pemfile_certs(text) == pemfile_items(text, "CERTIFICATE")

\* rustls_pemfile::pkcs8_private_keys(&mut reader)
pemfile_pkcs8_private_keys(text) == pemfile_items(text, "PRIVATE KEY")

\* a chain parser that gives up at the first section that does not decode
filter_map_ok_until_err(items) ==
    LET bad == { i \in 1 .. Len(items) : ~items[i].ok }
        n == IF bad = {} THEN Len(items)
             ELSE (CHOOSE i \in bad : \A j \in bad : i <= j) - 1
    IN  [i \in 1 .. n |-> items[i].val]

\* .filter_map(|cert| match cert { Ok(x) => Some(x), Err(_) => None }).collect()
filter_map_ok(items) ==
    LET kept == SelectSeq(items, LAMBDA r : r.ok)
    IN  [i \in 1 .. Len(kept) |-> kept[i].val]

\* .collect::<Result<Vec<_>,_>>(): the first Err, else all the values
collect_result(items) ==
    IF \E i \in 1 .. Len(items) : ~items[i].ok
    THEN Err("Base64Decode")
    ELSE Ok([i \in 1 .. Len(items) |-> items[i].val])

extract_cert_from_pem_str(text) ==
    Ok(filter_map_ok(pemfile_certs(text)))

\* file is Option<text>: None when the path does not exist
get_certs_from_path(file) ==
    IF file = None THEN Err("Io")
    ELSE Ok(filter_map_ok(pemfile_certs(file[1])))

\* a key parser that takes the first key when there are several
match_keys_len_first(keys) ==
    IF Len(keys) = 0 THEN Err("NoKeyFound") ELSE Ok(keys[1])

\* match keys.len() { 0 => .., 1 => .., _ => .. }
match_keys_len(keys) ==
    CASE Len(keys) = 0 -> Err("NoKeyFound")
      [] Len(keys) = 1 -> Ok(keys[1])
      [] OTHER -> Err("AmbiguousKey")

extract_priv_key_from_pem(text) ==
    LET keys == collect_result(pemfile_pkcs8_private_keys(text))
    IN  IF ~keys.ok THEN keys ELSE match_keys_len(keys.val)

get_priv_key_from_path(file) ==
    IF file = None THEN Err("Io")
    ELSE LET keys == collect_result(pemfile_pkcs8_private_keys(file[1]))
         IN  IF ~keys.ok THEN keys ELSE match_keys_len(keys.val)

\* aws_lc_rs::sign::any_supported_type(&private_key)
any_supported_type(key) == IF key = UnsupportedDer THEN Err("Unsupported") ELSE Ok(key)

(* ------------------------------ state ---------------------------------- *)
VARIABLES
    enable_lets_encrypt,        \* DynamicCertResolver.enable_lets_encrypt
    self_signed_cert_cache,     \* DashMap: host -> Option<Arc<CertifiedKey>>
    lets_encrypt_signed_certs,  \* DashMap: host -> Option<Arc<CertifiedKey>>
    dir_exists,                 \* .odd_box_cache/<host> exists
    cert_file,                  \* .odd_box_cache/<host>/cert.pem: Option<text>
    key_file,                   \* .odd_box_cache/<host>/key.pem: Option<text>
    pc,                         \* where each resolve call stands
    client_hello,               \* the server name the handshake presented, if any
    server_name,                \* client_hello.server_name() of the call
    crt_exists,                 \* local of generate_cert_if_not_exist
    cert,                       \* local: the generation rcgen returned (0: none)
    cert_chain,                 \* local of resolve
    private_key,                \* local of resolve
    result,                     \* what the call returned
    outcome,                    \* the return site of the call (its trace/error event)
    generations,                \* rcgen generations so far
    faults,                     \* failed operations so far
    operator_ops,               \* operator file changes so far
    calls,                      \* resolve calls begun so far
    \* history of a call, kept until its context begins the next call
    entry,                      \* << cert.pem, key.pem >> of its host when it began
    found,                      \* << crt_exists, key_exists >> as its checks found them
    files_quiet,                \* nothing else has changed its host's files since
    issued_quiet,               \* no authority bundle installed for its host since
    inserted_quiet,             \* nothing else has inserted a self-signed bundle for its host since
    faulted,                    \* an operation of the call failed
    partial_write,              \* the call wrote its certificate and its key write failed
    prior,                      \* the last bundle returned for its host before it began
    after_disk,                 \* a call for its host had succeeded through the disk path
    \* history of a host
    last_returned,              \* the bundle the latest completed call returned
    disk_served,                \* some call has succeeded through the disk path
    failed,                     \* some call for the host has returned absence
    last_issued_insert,         \* the bundle of the latest authority-tier insert
    last_self_signed_insert,    \* the bundle of the latest self-signed-tier insert
    partial,                    \* the files are as a failed key write left them
    \* the codec specification's state
    pem_text,                   \* the PEM input
    pem_exists,                 \* whether the path given to a *_from_path parser exists
    parsed                      \* the parser applied and what it returned

tiers == << self_signed_cert_cache, lets_encrypt_signed_certs >>
resolver == << enable_lets_encrypt, tiers >>
disk == << dir_exists, cert_file, key_file >>
frame == << crt_exists, cert, cert_chain, private_key >>
locals == << client_hello, server_name, frame, result, outcome >>
counters == << generations, faults, operator_ops, calls >>
call_history == << entry, found, partial_write, files_quiet, issued_quiet, inserted_quiet, faulted, partial_write,
                   prior, after_disk >>
inserts == << last_issued_insert, last_self_signed_insert >>
host_history == << last_returned, disk_served, failed, inserts, partial >>
history == << call_history, host_history >>
codec == << pem_text, pem_exists, parsed >>
vars == << resolver, disk, pc, locals, counters, history, codec >>

\* bundles the certificate-authority integration installs
IssuedBundles == { CertifiedKey(<< IssuedDerA >>, IssuedDerA, "le_insert"),
                   CertifiedKey(<< IssuedDerB >>, IssuedDerB, "le_insert") }
\* bundles handed to add_self_signed_cert_to_cache from outside resolve
InsertedBundles == { CertifiedKey(<< InsertedDer >>, InsertedDer, "ss_insert") }
\* records (cert.pem, key.pem) an operator leaves in a host's directory
OperatorRecords ==
    { << None, None >>,
      << Some(<< CertBlock(PinnedDer) >>), None >>,
      << None, Some(<< KeyBlock(PinnedDer) >>) >>,
      << Some(<< CertBlock(PinnedDer) >>), Some(<< KeyBlock(PinnedDer) >>) >>,
      << Some(<< >>), Some(<< KeyBlock(PinnedDer) >>) >>,
      << Some(<< CertBlock(PinnedDer) >>), Some(<< KeyBlock(PinnedDer), KeyBlock(OtherDer) >>) >>,
      << Some(<< CertBlock(PinnedDer) >>), Some(<< KeyBlock(UnsupportedDer) >>) >> }

NoParse == [fn |-> "-", out |-> Err("-")]

\* DynamicCertResolver::new, no call begun, an empty cache directory
InitResolver ==
    /\ enable_lets_encrypt \in BOOLEAN
    /\ self_signed_cert_cache = [h \in Hosts |-> None]
    /\ lets_encrypt_signed_certs = [h \in Hosts |-> None]
    /\ dir_exists = [h \in Hosts |-> FALSE]
    /\ cert_file = [h \in Hosts |-> None]
    /\ key_file = [h \in Hosts |-> None]
    /\ pc = [t \in Threads |-> "idle"]
    /\ client_hello = [t \in Threads |-> None]
    /\ server_name = [t \in Threads |-> None]
    /\ crt_exists = [t \in Threads |-> FALSE]
    /\ cert = [t \in Threads |-> 0]
    /\ cert_chain = [t \in Threads |-> << >>]
    /\ private_key = [t \in Threads |-> None]
    /\ result = [t \in Threads |-> None]
    /\ outcome = [t \in Threads |-> "-"]
    /\ generations = 0
    /\ faults = 0
    /\ operator_ops = 0
    /\ calls = 0
    /\ entry = [t \in Threads |-> << None, None >>]
    /\ found = [t \in Threads |-> None]
    /\ files_quiet = [t \in Threads |-> TRUE]
    /\ issued_quiet = [t \in Threads |-> TRUE]
    /\ inserted_quiet = [t \in Threads |-> TRUE]
    /\ faulted = [t \in Threads |-> FALSE]
    /\ partial_write = [t \in Threads |-> "-"]
    /\ prior = [t \in Threads |-> None]
    /\ after_disk = [t \in Threads |-> FALSE]
    /\ last_returned = [h \in Hosts |-> None]
    /\ disk_served = [h \in Hosts |-> FALSE]
    /\ failed = [h \in Hosts |-> FALSE]
    /\ last_issued_insert = [h \in Hosts |-> None]
    /\ last_self_signed_insert = [h \in Hosts |-> None]
    /\ partial = [h \in Hosts |-> "-"]

Init ==
    /\ InitResolver
    /\ pem_text = << >>
    /\ pem_exists = FALSE
    /\ parsed = NoParse

(* --------------------------- cache tiers ------------------------------- *)
\* an insert that evicts the entry it finds instead of replacing it
add_self_signed_cert_to_cache_evicting(domain, bundle) ==
    self_signed_cert_cache' =
        [self_signed_cert_cache EXCEPT ![domain] = IF @ = None THEN Some(bundle) ELSE None]

\* an insert that is lost
add_self_signed_cert_to_cache_dropped(domain, bundle) ==
    UNCHANGED self_signed_cert_cache

\* add_self_signed_cert_to_cache
add_self_signed_cert_to_cache(domain, bundle) ==
    self_signed_cert_cache' = [self_signed_cert_cache EXCEPT ![domain] = Some(bundle)]

\* an authority insert that keeps the bundle already installed
add_lets_encrypt_signed_cert_if_absent(domain, bundle) ==
    lets_encrypt_signed_certs' =
        IF lets_encrypt_signed_certs[domain] # None THEN lets_encrypt_signed_certs
        ELSE [lets_encrypt_signed_certs EXCEPT ![domain] = Some(bundle)]

\* add_lets_encrypt_signed_cert_to_mem_cache
add_lets_encrypt_signed_cert_to_mem_cache(domain, bundle) ==
    lets_encrypt_signed_certs' = [lets_encrypt_signed_certs EXCEPT ![domain] = Some(bundle)]

\* get_self_signed_cert_from_cache / self.self_signed_cert_cache.get(server_name)
get_self_signed_cert_from_cache(domain) == self_signed_cert_cache[domain]

\* get_lets_encrypt_signed_cert_from_mem_cache / self.lets_encrypt_signed_certs.get
get_lets_encrypt_signed_cert_from_mem_cache(domain) == lets_encrypt_signed_certs[domain]

(* ------------------------------ history -------------------------------- *)
\* the calls (in progress or returned) for host h, other than actor's
Others(actor, h) == { t \in Threads : t # actor /\ server_name[t] = Some(h) }

\* someone changed a file of h
FilesTouched(actor, h) ==
    /\ files_quiet' = [t \in Threads |-> files_quiet[t] /\ t \notin Others(actor, h)]
    /\ partial' = [partial EXCEPT ![h] = "-"]

Unquiet(p) == IF p = None THEN None ELSE Some([p[1] EXCEPT !.quiet = FALSE])

\* someone inserted into the self-signed tier for h
SelfSignedTouched(actor, h) ==
    /\ inserted_quiet' = [t \in Threads |-> inserted_quiet[t] /\ t \notin Others(actor, h)]
    /\ prior' = [t \in Threads |-> IF t \in Others(actor, h) THEN Unquiet(prior[t]) ELSE prior[t]]

\* the call of t returns r for h: it is the latest completed call for h,
\* unless an authority bundle was installed for h while it ran
Returned(t, h, r) ==
    IF r = None \/ ~issued_quiet[t] THEN last_returned
    ELSE [last_returned EXCEPT ![h] = Some([bundle |-> r[1], quiet |-> inserted_quiet[t]])]

\* the step of t's call is recorded when it returns absence
Failing(t) ==
    failed' = [failed EXCEPT ![server_name[t][1]] = @ \/ (pc'[t] = "done" /\ result'[t] = None)]

(* ------------------------------ resolve -------------------------------- *)
\* the host a call resolves
HostOf(t) == server_name[t][1]

\* the call leaves resolve at `site` with r; its locals die with the frame
Finish(t, r, site) ==
    /\ pc' = [pc EXCEPT ![t] = "done"]
    /\ result' = [result EXCEPT ![t] = r]
    /\ outcome' = [outcome EXCEPT ![t] = site]
    /\ crt_exists' = [crt_exists EXCEPT ![t] = FALSE]
    /\ cert' = [cert EXCEPT ![t] = 0]
    /\ cert_chain' = [cert_chain EXCEPT ![t] = << >>]
    /\ private_key' = [private_key EXCEPT ![t] = None]

\* the call goes on to the step `label`
Goto(t, label) ==
    /\ pc' = [pc EXCEPT ![t] = label]
    /\ UNCHANGED << result, outcome >>

\* an operation of the call fails
CanDisturb == faults + operator_ops < MaxDisturbances
Fault(t) ==
    /\ CanDisturb
    /\ faults' = faults + 1
    /\ faulted' = [faulted EXCEPT ![t] = TRUE]
NoFault == UNCHANGED << faults, faulted >>

\* a resolver that serves a default host to a hello without a server name
server_name_of_default(hello) ==
    IF hello = None THEN Some(CHOOSE h \in Hosts : TRUE) ELSE hello

\* line 41: client_hello.server_name()?
server_name_of(hello) == hello

\* a resolver that lets a cached self-signed bundle shadow the authority tier
resolve_lets_encrypt_hit_unless_self_signed(name) ==
    IF enable_lets_encrypt /\ get_self_signed_cert_from_cache(name) = None
    THEN get_lets_encrypt_signed_cert_from_mem_cache(name)
    ELSE None

\* a resolver that consults the authority tier whatever the setting
resolve_lets_encrypt_hit_unconditional(name) ==
    get_lets_encrypt_signed_cert_from_mem_cache(name)

\* lines 43-48: the authority tier is consulted only when issuance is enabled
resolve_lets_encrypt_hit(name) ==
    IF enable_lets_encrypt
    THEN get_lets_encrypt_signed_cert_from_mem_cache(name)
    ELSE None

\* a resolver that holds the handshake until the authority has issued
lets_encrypt_miss_awaits_issuance(name) ==
    IF enable_lets_encrypt THEN "await_issuance" ELSE "self_signed_lookup"

\* line 48 to line 50: after a miss (or with issuance disabled) resolve goes
\* straight on to the self-signed lookup
lets_encrypt_miss(name) == "self_signed_lookup"

\* a self-signed lookup that never hits
resolve_self_signed_hit_never(name) == None

\* lines 50-53
resolve_self_signed_hit(name) == get_self_signed_cert_from_cache(name)

\* a handshake runs resolve in the lowest-numbered context that is not
\* inside a call (the contexts are interchangeable)
Free(t) == pc[t] \in {"idle", "done"}
FreeContext(t) == Free(t) /\ \A u \in Threads : u < t => ~Free(u)

\* lines 39-48: server_name()? and the authority-tier lookup
ResolveCall(t, hello) ==
    /\ FreeContext(t)
    /\ calls < MaxCalls
    /\ calls' = calls + 1
    /\ LET name == server_name_of(hello)
           h == name[1]
           hit == resolve_lets_encrypt_hit(h)
       IN  /\ client_hello' = [client_hello EXCEPT ![t] = hello]
           /\ server_name' = [server_name EXCEPT ![t] = name]
           /\ found' = [found EXCEPT ![t] = None]
           /\ files_quiet' = [files_quiet EXCEPT ![t] = TRUE]
           /\ issued_quiet' = [issued_quiet EXCEPT ![t] = TRUE]
           /\ inserted_quiet' = [inserted_quiet EXCEPT ![t] = TRUE]
           /\ faulted' = [faulted EXCEPT ![t] = FALSE]
           /\ partial_write' = [partial_write EXCEPT ![t] = "-"]
           /\ IF name = None
              THEN /\ Finish(t, None, "no_sni")
                   /\ entry' = [entry EXCEPT ![t] = << None, None >>]
                   /\ prior' = [prior EXCEPT ![t] = None]
                   /\ after_disk' = [after_disk EXCEPT ![t] = FALSE]
                   /\ UNCHANGED last_returned
              ELSE /\ entry' = [entry EXCEPT ![t] = << cert_file[h], key_file[h] >>]
                   /\ prior' = [prior EXCEPT ![t] = last_returned[h]]
                   /\ after_disk' = [after_disk EXCEPT ![t] = disk_served[h]]
                   /\ IF hit # None
                      THEN /\ Finish(t, hit, "le_hit")
                           /\ last_returned' = [last_returned EXCEPT ![h] =
                                  Some([bundle |-> hit[1], quiet |-> TRUE])]
                      ELSE /\ pc' = [pc EXCEPT ![t] = lets_encrypt_miss(h)]
                           /\ result' = [result EXCEPT ![t] = None]
                           /\ outcome' = [outcome EXCEPT ![t] = "-"]
                           /\ UNCHANGED << frame, last_returned >>
    /\ UNCHANGED << resolver, disk, generations, faults, operator_ops, disk_served, failed, inserts, partial, codec >>

\* lines 50-53: the self-signed tier lookup
SelfSignedLookup(t) ==
    /\ pc[t] = "self_signed_lookup"
    /\ LET hit == resolve_self_signed_hit(HostOf(t))
       IN  IF hit # None
           THEN /\ Finish(t, hit, "ss_hit")
                /\ last_returned' = Returned(t, HostOf(t), hit)
           ELSE /\ Goto(t, "create_dir_all")
                /\ UNCHANGED << frame, last_returned >>
    /\ UNCHANGED << resolver, disk, client_hello, server_name, counters, call_history, disk_served, failed, inserts, partial, codec >>

\* lines 55-63: std::fs::create_dir_all, which may fail
CreateDirAll(t) ==
    /\ pc[t] = "create_dir_all"
    /\ \/ /\ dir_exists' = [dir_exists EXCEPT ![HostOf(t)] = TRUE]
          /\ Goto(t, "metadata_cert")
          /\ NoFault
          /\ UNCHANGED frame
       \/ /\ Fault(t)
          /\ Finish(t, None, "create_dir_failed")
          /\ UNCHANGED dir_exists
    /\ UNCHANGED << resolver, cert_file, key_file, client_hello, server_name, generations, operator_ops,
                    calls, entry, found, partial_write, files_quiet, issued_quiet, inserted_quiet, prior, after_disk,
                    last_returned, disk_served, inserts, partial, codec >>
    /\ Failing(t)

(* --------------------- generate_cert_if_not_exist ---------------------- *)
\* line 111: std::fs::metadata(cert_path).is_ok()
MetadataCert(t) ==
    /\ pc[t] = "metadata_cert"
    /\ crt_exists' = [crt_exists EXCEPT ![t] = (cert_file[HostOf(t)] # None)]
    /\ Goto(t, "metadata_key")
    /\ UNCHANGED << resolver, disk, client_hello, server_name, cert, cert_chain, private_key,
                    counters, history, codec >>

\* a generator that repairs a record with one file by generating anew
existence_decision_repair(crt, key) ==
    IF crt /\ key THEN "use_existing" ELSE "generate"

\* a generator that takes an existing certificate file as a complete record
existence_decision_trusts_certificate(crt, key) ==
    IF crt THEN "use_existing" ELSE IF key THEN "inconsistent" ELSE "generate"

\* a generator that never generates
existence_decision_never_generates(crt, key) ==
    IF crt = key THEN "use_existing" ELSE "inconsistent"

\* a generator that generates over an existing pair
existence_decision_regenerates(crt, key) ==
    IF crt # key THEN "inconsistent" ELSE "generate"

\* lines 114-123: what generate_cert_if_not_exist does with the two checks
existence_decision(crt, key) ==
    IF crt /\ key THEN "use_existing"
    ELSE IF crt # key THEN "inconsistent"
    ELSE "generate"

\* lines 112-136 (and 68-71): the key check, the decision, and rcgen
MetadataKey(t) ==
    /\ pc[t] = "metadata_key"
    /\ LET key_exists == key_file[HostOf(t)] # None
           decision == existence_decision(crt_exists[t], key_exists)
       IN  /\ found' = [found EXCEPT ![t] = Some(<< crt_exists[t], key_exists >>)]
           /\ \/ /\ decision = "use_existing"
                 /\ Goto(t, "read_cert")
                 /\ NoFault
                 /\ UNCHANGED << frame, generations >>
              \/ /\ decision = "inconsistent"
                 /\ Finish(t, None, "inconsistent_record")
                 /\ NoFault
                 /\ UNCHANGED generations
              \/ /\ decision = "generate"
                 /\ generations < MaxGenerations
                 /\ generations' = generations + 1
                 /\ cert' = [cert EXCEPT ![t] = generations + 1]
                 /\ Goto(t, "write_cert_create")
                 /\ NoFault
                 /\ UNCHANGED << crt_exists, cert_chain, private_key >>
              \/ /\ decision = "generate"
                 /\ Fault(t)
                 /\ Finish(t, None, "generation_failed")
                 /\ UNCHANGED generations
    /\ UNCHANGED << resolver, disk, client_hello, server_name, operator_ops, calls, entry, partial_write, files_quiet,
                    issued_quiet, inserted_quiet, prior, after_disk, last_returned, disk_served, inserts, partial, codec >>
    /\ Failing(t)

\* cert.cert.pem() and cert.key_pair.serialize_pem() of generation g
cert_pem(g) == << CertBlock(Der("rcgen", g)) >>
key_pair_serialize_pem(g) == << KeyBlock(Der("rcgen", g)) >>

\* a write of the call in context t fails at step `here`: when it is a step
\* of the key write, the call's own certificate is in place and nobody else
\* has touched the files, the record is the partial record of that failure
WriteFailed(t, here) ==
    LET h == server_name[t][1]
        kind == IF here = "write_key_create" THEN "no_key" ELSE "empty_key"
    IN  IF /\ here \in {"write_key_create", "write_key_all"}
           /\ files_quiet[t] /\ cert_file[h] = Some(<< CertBlock(Der("rcgen", cert[t])) >>)
        THEN /\ partial_write' = [partial_write EXCEPT ![t] = kind]
             /\ partial' = [partial EXCEPT ![h] = kind]
        ELSE UNCHANGED << partial_write, partial >>

\* std::fs::write is File::create (the file exists, empty) and then
\* write_all; either may fail and lines 131-132 drop the error (let _ =).
FsCreate(t, file, here, next, skip) ==
    /\ pc[t] = here
    /\ \/ /\ file' = [file EXCEPT ![HostOf(t)] = Some(<< >>)]
          /\ FilesTouched(t, HostOf(t))
          /\ Goto(t, next)
          /\ NoFault
          /\ UNCHANGED partial_write
       \/ /\ Fault(t)
          /\ UNCHANGED << file, files_quiet >>
          /\ WriteFailed(t, here)
          /\ Goto(t, skip)

FsWriteAll(t, file, text, here, next) ==
    /\ pc[t] = here
    /\ \/ /\ file' = [file EXCEPT ![HostOf(t)] =
                         IF file[HostOf(t)] = None THEN None ELSE Some(text)]
          /\ FilesTouched(t, HostOf(t))
          /\ NoFault
          /\ UNCHANGED partial_write
       \/ /\ Fault(t)
          /\ UNCHANGED << file, files_quiet >>
          /\ WriteFailed(t, here)
    /\ Goto(t, next)

\* line 131
WriteCertCreate(t) ==
    /\ FsCreate(t, cert_file, "write_cert_create", "write_cert_all", "write_key_create")
    /\ UNCHANGED << resolver, dir_exists, key_file, client_hello, server_name, frame, generations,
                    operator_ops, calls, entry, found, issued_quiet, inserted_quiet, prior, after_disk,
                    last_returned, disk_served, failed, inserts, codec >>

WriteCertAll(t) ==
    /\ FsWriteAll(t, cert_file, cert_pem(cert[t]), "write_cert_all", "write_key_create")
    /\ UNCHANGED << resolver, dir_exists, key_file, client_hello, server_name, frame, generations,
                    operator_ops, calls, entry, found, issued_quiet, inserted_quiet, prior, after_disk,
                    last_returned, disk_served, failed, inserts, codec >>

\* line 132, then Ok(()) at line 133
WriteKeyCreate(t) ==
    /\ FsCreate(t, key_file, "write_key_create", "write_key_all", "read_cert")
    /\ UNCHANGED << resolver, dir_exists, cert_file, client_hello, server_name, frame, generations,
                    operator_ops, calls, entry, found, issued_quiet, inserted_quiet, prior, after_disk,
                    last_returned, disk_served, failed, inserts, codec >>

WriteKeyAll(t) ==
    /\ FsWriteAll(t, key_file, key_pair_serialize_pem(cert[t]), "write_key_all", "read_cert")
    /\ UNCHANGED << resolver, dir_exists, cert_file, client_hello, server_name, frame, generations,
                    operator_ops, calls, entry, found, issued_quiet, inserted_quiet, prior, after_disk,
                    last_returned, disk_served, failed, inserts, codec >>

(* ------------------------- resolve, the load --------------------------- *)
\* lines 74-79, 97-100: read the chain; File::open may fail
ReadCert(t) ==
    /\ pc[t] = "read_cert"
    /\ \/ LET chain == get_certs_from_path(cert_file[HostOf(t)])
          IN  /\ IF ~chain.ok
                 THEN Finish(t, None, "read_cert_failed")
                 ELSE IF chain.val = << >>
                 THEN Finish(t, None, "empty_cert_chain")
                 ELSE /\ cert_chain' = [cert_chain EXCEPT ![t] = chain.val]
                      /\ Goto(t, "read_key")
                      /\ UNCHANGED << crt_exists, cert, private_key >>
              /\ NoFault
       \/ /\ Fault(t)
          /\ Finish(t, None, "read_cert_failed")
    /\ UNCHANGED << resolver, disk, client_hello, server_name, generations, operator_ops, calls,
                    entry, found, partial_write, files_quiet, issued_quiet, inserted_quiet, prior, after_disk, last_returned, disk_served, inserts, partial, codec >>
    /\ Failing(t)

\* lines 80-81, 89-96: read the key and build the signing key
ReadKey(t) ==
    /\ pc[t] = "read_key"
    /\ \/ LET key == get_priv_key_from_path(key_file[HostOf(t)])
          IN  /\ IF ~key.ok
                 THEN Finish(t, None, "read_key_failed")
                 ELSE IF ~any_supported_type(key.val).ok
                 THEN Finish(t, None, "signing_key_failed")
                 ELSE /\ private_key' = [private_key EXCEPT ![t] = Some(key.val)]
                      /\ Goto(t, "insert")
                      /\ UNCHANGED << crt_exists, cert, cert_chain >>
              /\ NoFault
       \/ /\ Fault(t)
          /\ Finish(t, None, "read_key_failed")
    /\ UNCHANGED << resolver, disk, client_hello, server_name, generations, operator_ops, calls,
                    entry, found, partial_write, files_quiet, issued_quiet, inserted_quiet, prior, after_disk, last_returned, disk_served, inserts, partial, codec >>
    /\ Failing(t)

\* a resolver that publishes the bundle it built in both tiers
resolve_insert_both_tiers(name, bundle) ==
    /\ add_self_signed_cert_to_cache(name, bundle)
    /\ add_lets_encrypt_signed_cert_to_mem_cache(name, bundle)

\* line 86: self.self_signed_cert_cache.insert(server_name.into(), result.clone())
resolve_insert(name, bundle) ==
    /\ add_self_signed_cert_to_cache(name, bundle)
    /\ UNCHANGED lets_encrypt_signed_certs

\* a resolver that caches the bundle and then reports absence
resolve_result_absent(bundle) == None

\* line 87: Some(result)
resolve_result(bundle) == Some(bundle)

\* lines 82-87: build the bundle, insert it, return it
Insert(t) ==
    /\ pc[t] = "insert"
    /\ LET bundle == CertifiedKey(cert_chain[t], private_key[t][1], "resolve")
       IN  /\ resolve_insert(HostOf(t), bundle)
           /\ Finish(t, resolve_result(bundle), "inserted")
           /\ last_returned' =
                  IF issued_quiet[t] THEN Returned(t, HostOf(t), resolve_result(bundle))
                  ELSE [last_returned EXCEPT ![HostOf(t)] = Unquiet(@)]
    /\ SelfSignedTouched(t, HostOf(t))
    /\ disk_served' = [disk_served EXCEPT ![HostOf(t)] = TRUE]
    /\ UNCHANGED << enable_lets_encrypt, disk, client_hello, server_name,
                    counters, entry, found, partial_write, files_quiet, issued_quiet, faulted, after_disk, last_issued_insert, partial, codec >>
    /\ last_self_signed_insert' = [last_self_signed_insert EXCEPT ![HostOf(t)] = Some(CertifiedKey(cert_chain[t], private_key[t][1], "resolve"))]
    /\ Failing(t)

(* ----------------------------- environment ----------------------------- *)
\* the authority integration installs an issued bundle for h; the first one
\* issued for a host is that of IssuedDerA, the other is a renewal (the two
\* are interchangeable)
InstallIssued(h, b) ==
    /\ b.key = IssuedDerB => lets_encrypt_signed_certs[h] # None
    /\ add_lets_encrypt_signed_cert_to_mem_cache(h, b)
    /\ issued_quiet' = [t \in Threads |-> issued_quiet[t] /\ t \notin Others(0, h)]
    /\ prior' = [t \in Threads |-> IF t \in Others(0, h) THEN None ELSE prior[t]]
    /\ last_returned' = [last_returned EXCEPT ![h] = None]
    /\ UNCHANGED << enable_lets_encrypt, self_signed_cert_cache, disk, pc, locals, counters,
                    entry, found, partial_write, files_quiet, inserted_quiet, faulted, after_disk, disk_served, failed, last_self_signed_insert, partial, codec >>
    /\ last_issued_insert' = [last_issued_insert EXCEPT ![h] = Some(b)]

\* a caller outside resolve inserts into the self-signed tier for h
InsertSelfSigned(h, b) ==
    /\ add_self_signed_cert_to_cache(h, b)
    /\ SelfSignedTouched(0, h)
    /\ last_returned' = [last_returned EXCEPT ![h] = Unquiet(@)]
    /\ UNCHANGED << enable_lets_encrypt, lets_encrypt_signed_certs, disk, pc, locals, counters,
                    entry, found, partial_write, files_quiet, issued_quiet, faulted, after_disk, disk_served, failed, last_issued_insert, partial, codec >>
    /\ last_self_signed_insert' = [last_self_signed_insert EXCEPT ![h] = Some(b)]

\* an operator places, replaces or removes files of h; operator changes are
\* taken to happen while no resolve call is in progress
OperatorChange(h, c, k) ==
    /\ CanDisturb
    /\ \A t \in Threads : Free(t)
    /\ << c, k >> # << cert_file[h], key_file[h] >>
    /\ operator_ops' = operator_ops + 1
    /\ cert_file' = [cert_file EXCEPT ![h] = c]
    /\ key_file' = [key_file EXCEPT ![h] = k]
    /\ dir_exists' = [dir_exists EXCEPT ![h] = TRUE]
    /\ FilesTouched(0, h)
    /\ UNCHANGED << resolver, pc, locals, generations, faults, calls, entry, found, partial_write, issued_quiet, inserted_quiet,
                    faulted, prior, after_disk, last_returned, disk_served, failed, inserts, codec >>

Hellos == { None } \cup { Some(h) : h \in Hosts }

Next ==
    \/ \E t \in Threads, hello \in Hellos : ResolveCall(t, hello)
    \/ \E t \in Threads : SelfSignedLookup(t)
    \/ \E t \in Threads : CreateDirAll(t)
    \/ \E t \in Threads : MetadataCert(t)
    \/ \E t \in Threads : MetadataKey(t)
    \/ \E t \in Threads : WriteCertCreate(t)
    \/ \E t \in Threads : WriteCertAll(t)
    \/ \E t \in Threads : WriteKeyCreate(t)
    \/ \E t \in Threads : WriteKeyAll(t)
    \/ \E t \in Threads : ReadCert(t)
    \/ \E t \in Threads : ReadKey(t)
    \/ \E t \in Threads : Insert(t)
    \/ \E h \in Hosts, b \in IssuedBundles : InstallIssued(h, b)
    \/ \E h \in Hosts, b \in InsertedBundles : InsertSelfSigned(h, b)
    \/ \E h \in Hosts, r \in OperatorRecords : OperatorChange(h, r[1], r[2])

Spec == Init /\ [][Next]_vars

\* the steps a call in context t takes once it has begun; none of them waits
\* on a lock, a channel or another call, so a running handshake takes them
Step(t) ==
    \/ SelfSignedLookup(t) \/ CreateDirAll(t) \/ MetadataCert(t) \/ MetadataKey(t)
    \/ WriteCertCreate(t) \/ WriteCertAll(t) \/ WriteKeyCreate(t) \/ WriteKeyAll(t)
    \/ ReadCert(t) \/ ReadKey(t) \/ Insert(t)

\* the resolver with every handshake thread scheduled
SpecLive == Spec /\ \A t \in Threads : WF_vars(Step(t))

(* ------------------------ the codec on its own ------------------------- *)
\* the sequences over S of length at most n
SeqUpTo(S, n) == UNION { [1 .. k -> S] : k \in 0 .. n }

\* PEM sections of the codec inputs: every known label and one that is not
\* known, bodies that decode and bodies that do not
PemBlocks ==
    { Block(label, b64ok, der) :
        label \in KnownLabels \cup {"DH PARAMETERS"},
        b64ok \in BOOLEAN,
        der \in {PinnedDer, OtherDer} }

PemTexts == SeqUpTo(PemBlocks, MaxBlocks)

\* the path handed to a *_from_path parser
PemPath == IF pem_exists THEN Some(pem_text) ELSE None

InitCodec ==
    /\ InitResolver
    /\ pem_text \in PemTexts
    /\ pem_exists \in BOOLEAN
    /\ parsed = NoParse

Parse(fn, out) ==
    /\ parsed' = [fn |-> fn, out |-> out]
    /\ UNCHANGED << resolver, disk, pc, locals, counters, history, pem_text, pem_exists >>

ExtractCertFromPemStr == Parse("extract_cert_from_pem_str", extract_cert_from_pem_str(pem_text))
GetCertsFromPath == Parse("get_certs_from_path", get_certs_from_path(PemPath))
ExtractPrivKeyFromPem == Parse("extract_priv_key_from_pem", extract_priv_key_from_pem(pem_text))
GetPrivKeyFromPath == Parse("get_priv_key_from_path", get_priv_key_from_path(PemPath))

NextCodec ==
    \/ ExtractCertFromPemStr
    \/ GetCertsFromPath
    \/ ExtractPrivKeyFromPem
    \/ GetPrivKeyFromPath

SpecCodec == InitCodec /\ [][NextCodec]_vars

(* ======================= properties of the codec ======================= *)
\* what an input holds, read off the text section by section
RECURSIVE ValidCertificates(_)
ValidCertificates(text) ==
    IF text = << >> THEN << >>
    ELSE (IF Head(text).label = "CERTIFICATE" /\ Head(text).b64ok
          THEN << Head(text).der >> ELSE << >>) \o ValidCertificates(Tail(text))

RECURSIVE Pkcs8Keys(_)
Pkcs8Keys(text) ==
    IF text = << >> THEN << >>
    ELSE (IF Head(text).label = "PRIVATE KEY" /\ Head(text).b64ok
          THEN << Head(text).der >> ELSE << >>) \o Pkcs8Keys(Tail(text))

HasUndecodable(text) ==
    \E i \in 1 .. Len(text) : text[i].label \in KnownLabels /\ ~text[i].b64ok

KeyParsed ==
    \/ parsed.fn = "extract_priv_key_from_pem"
    \/ parsed.fn = "get_priv_key_from_path" /\ pem_exists

CertsParsed ==
    \/ parsed.fn = "extract_cert_from_pem_str"
    \/ parsed.fn = "get_certs_from_path" /\ pem_exists

\* C9 as stated: for every key input, both key parsers succeed exactly when
\* the input holds exactly one PKCS8 private key, fail with the no-key error
\* when it holds none and with the ambiguous-key error when it holds several.
C9_AsStated ==
    KeyParsed =>
        LET n == Len(Pkcs8Keys(pem_text))
        IN  /\ parsed.out.ok <=> n = 1
            /\ n = 0 => parsed.out = Err("NoKeyFound")
            /\ n >= 2 => parsed.out = Err("AmbiguousKey")

\* C9, amended: for every key input in which every section of a known label
\* decodes, both key parsers return the key when the input holds exactly one
\* PKCS8 private key, the no-key error when it holds none and the
\* ambiguous-key error when it holds several; an input with a known section
\* that does not decode fails with the decode error whatever keys it holds;
\* so a parse succeeds only on exactly one key and never picks one of several.
C9_KeyMultiplicity ==
    KeyParsed =>
        LET keys == Pkcs8Keys(pem_text)
        IN  /\ HasUndecodable(pem_text) => parsed.out = Err("Base64Decode")
            /\ ~HasUndecodable(pem_text) =>
                 /\ Len(keys) = 0 => parsed.out = Err("NoKeyFound")
                 /\ Len(keys) = 1 => parsed.out = Ok(keys[1])
                 /\ Len(keys) >= 2 => parsed.out = Err("AmbiguousKey")
            /\ parsed.out.ok => Len(keys) = 1

C9_Witness ==
    /\ parsed.fn = "get_priv_key_from_path"
    /\ pem_exists
    /\ Len(Pkcs8Keys(pem_text)) = 2
    /\ parsed.out = Err("AmbiguousKey")

\* C10: both chain parsers return exactly the certificate sections of the
\* input that decode, in their order, and skip every section that does not;
\* a section that does not decode followed by one that does gives a chain of
\* length one.
C10_LenientChain ==
    CertsParsed => parsed.out = Ok(ValidCertificates(pem_text))

C10_Witness ==
    /\ parsed.fn = "get_certs_from_path"
    /\ pem_exists
    /\ Len(pem_text) = 2
    /\ pem_text[1].label = "CERTIFICATE" /\ ~pem_text[1].b64ok
    /\ pem_text[2].label = "CERTIFICATE" /\ pem_text[2].b64ok
    /\ parsed.out.ok /\ Len(parsed.out.val) = 1

(* ====================== properties of the resolver ===================== *)
\* a call begins in context t in this step
CallBegins(t) == FreeContext(t) /\ calls' = calls + 1

\* a call for a host has returned in context t
Done(t) == pc[t] = "done" /\ server_name[t] # None

\* the call was answered from a cache tier
FromCache(t) == outcome[t] \in {"le_hit", "ss_hit"}

\* the steps after generate_cert_if_not_exist has decided to generate
GenerateSteps == {"write_cert_create", "write_cert_all", "write_key_create", "write_key_all"}

SameMaterial(a, b) == a.chain = b.chain /\ a.key = b.key

\* the bundle is what the codec reads out of the two files
LoadedFrom(b, record) ==
    /\ record[1] # None /\ record[2] # None
    /\ b.chain = ValidCertificates(record[1][1])
    /\ << b.key >> = Pkcs8Keys(record[2][1])

Record(h) == << cert_file[h], key_file[h] >>
Neither(record) == record[1] = None /\ record[2] = None
Both(record) == record[1] # None /\ record[2] # None
ExactlyOne(record) == (record[1] = None) # (record[2] = None)

\* C1: with authority issuance enabled, a call for h made while the authority
\* tier holds a bundle for h returns exactly that bundle, whatever the
\* self-signed tier and the disk hold for h: a returned call with nothing
\* installed or inserted for h since it began has the authority bundle as its
\* result, and a call still past the lookup found the tier empty for h.
C1_Precedence ==
    \A t \in Threads :
        (server_name[t] # None /\ enable_lets_encrypt /\ issued_quiet[t]
            /\ lets_encrypt_signed_certs[HostOf(t)] # None)
        => /\ pc[t] = "done"
           /\ result[t] = lets_encrypt_signed_certs[HostOf(t)]

\* the self-signed entry was cached by an earlier resolve, the files are on
\* disk, the authority bundle came later, and the call returned that bundle
C1_Witness ==
    \E t \in Threads :
        /\ Done(t) /\ enable_lets_encrypt /\ issued_quiet[t]
        /\ result[t] # None /\ result[t] = lets_encrypt_signed_certs[HostOf(t)]
        /\ self_signed_cert_cache[HostOf(t)] # None
        /\ self_signed_cert_cache[HostOf(t)][1].arc = "resolve"
        /\ Both(Record(HostOf(t)))

\* C2: with authority issuance disabled, no call returns a bundle that was
\* installed in the authority tier: every result is absence or a bundle of
\* the self-signed tier, and no call is answered by the authority lookup.
C2_Isolation ==
    ~enable_lets_encrypt =>
        \A t \in Threads :
            pc[t] = "done" =>
                /\ outcome[t] # "le_hit"
                /\ result[t] # None => result[t][1].arc \in {"resolve", "ss_insert"}

\* issuance disabled, a bundle installed for h before the call, the call served
C2_Witness ==
    \E t \in Threads :
        /\ Done(t) /\ ~enable_lets_encrypt /\ issued_quiet[t]
        /\ lets_encrypt_signed_certs[HostOf(t)] # None
        /\ result[t] # None

\* C3 as stated: a call for h that returns a bundle after an earlier call for
\* h returned one, with no authority bundle installed for h since that
\* earlier call began, returns the same chain and key.
C3_AsStated ==
    \A t \in Threads :
        (Done(t) /\ prior[t] # None /\ result[t] # None)
        => SameMaterial(result[t][1], prior[t][1].bundle)

\* C3, amended: two calls for h made one after the other, with no bundle
\* installed or inserted for h in either tier (by the authority integration,
\* by add_self_signed_cert_to_cache or by another resolve call) from the
\* start of the first call to the return of the second, return the same
\* chain and key.
C3_CacheStability ==
    \A t \in Threads :
        (Done(t) /\ prior[t] # None /\ prior[t][1].quiet /\ result[t] # None)
        => SameMaterial(result[t][1], prior[t][1].bundle)

\* the first call went through the disk path, the second hit the cache
C3_Witness ==
    \E t \in Threads :
        /\ Done(t) /\ prior[t] # None /\ prior[t][1].quiet /\ result[t] # None
        /\ prior[t][1].bundle.arc = "resolve"
        /\ outcome[t] = "ss_hit"

\* C4 as stated: a call for h made when exactly one of the two files exists
\* fails, and the record is as it was.
C4_AsStated ==
    \A t \in Threads :
        (Done(t) /\ ExactlyOne(entry[t]) /\ files_quiet[t])
        => result[t] = None /\ Record(HostOf(t)) = entry[t]

\* C4, amended: a call for h that misses both cache tiers and whose existence
\* checks find exactly one of the two files fails as an inconsistent record
\* and never generates or writes; with nothing else changing the files, the
\* existing file and the absence of the other stay as they were.
C4_InconsistentRecord ==
    \A t \in Threads :
        (found[t] # None /\ found[t][1][1] # found[t][1][2])
        => /\ pc[t] = "done" /\ result[t] = None /\ outcome[t] = "inconsistent_record"
           /\ files_quiet[t] => /\ Record(HostOf(t)) = entry[t]
                                /\ ExactlyOne(Record(HostOf(t)))

\* a certificate without its key, found by a call that missed both tiers
C4_Witness ==
    \E t \in Threads :
        /\ Done(t) /\ found[t] = Some(<< TRUE, FALSE >>) /\ files_quiet[t]
        /\ result[t] = None
        /\ cert_file[HostOf(t)] # None /\ key_file[HostOf(t)] = None
        /\ generations = 0

\* C5 as stated: a call for h made when neither file exists succeeds, and
\* afterwards both files exist and the self-signed tier holds an entry for h
\* with the material of the files.
C5_AsStated ==
    \A t \in Threads :
        (Done(t) /\ Neither(entry[t]) /\ files_quiet[t] /\ inserted_quiet[t])
        => /\ result[t] # None
           /\ self_signed_cert_cache[HostOf(t)] # None
           /\ LoadedFrom(self_signed_cert_cache[HostOf(t)][1], Record(HostOf(t)))

\* C5, amended: a call for h made when neither file exists, that misses both
\* cache tiers, none of whose operations fails, and with nothing else
\* changing h's files or h's self-signed entry meanwhile, succeeds; afterwards
\* both files exist and the self-signed tier holds for h the bundle returned,
\* whose chain and key are the material in those files.
C5_FirstContact ==
    \A t \in Threads :
        (Done(t) /\ Neither(entry[t]) /\ ~FromCache(t) /\ ~faulted[t]
            /\ files_quiet[t] /\ inserted_quiet[t])
        => /\ outcome[t] = "inserted" /\ result[t] # None
           /\ self_signed_cert_cache[HostOf(t)] = result[t]
           /\ LoadedFrom(result[t][1], Record(HostOf(t)))

C5_Witness ==
    \E t \in Threads :
        /\ Done(t) /\ Neither(entry[t]) /\ ~FromCache(t) /\ ~faulted[t]
        /\ files_quiet[t] /\ inserted_quiet[t]
        /\ outcome[t] = "inserted"
        /\ cert_file[HostOf(t)] = Some(cert_pem(1))
        /\ key_file[HostOf(t)] = Some(key_pair_serialize_pem(1))

\* C6 as stated: a call for h made when both files exist writes neither file,
\* and the bundle it serves is loaded from those files.
C6_AsStated ==
    \A t \in Threads :
        (Done(t) /\ Both(entry[t]) /\ files_quiet[t])
        => /\ Record(HostOf(t)) = entry[t]
           /\ result[t] # None => LoadedFrom(result[t][1], entry[t])

\* C6, amended: a call whose existence checks find both files never generates
\* and never writes, under any number and interleaving of calls; when the
\* call missed both cache tiers and nothing else has changed the files since
\* it began, the files are as they were and a bundle it serves is loaded from
\* them (a call answered from a cache tier serves the cached bundle instead).
C6_PrePlacedPairs ==
    \A t \in Threads :
        /\ (found[t] = Some(<< TRUE, TRUE >>))
            => pc[t] \notin GenerateSteps /\ cert[t] = 0
        /\ (Done(t) /\ Both(entry[t]) /\ files_quiet[t] /\ ~FromCache(t))
            => /\ Record(HostOf(t)) = entry[t]
               /\ result[t] # None => LoadedFrom(result[t][1], entry[t])

\* an operator's pair, placed before the call, served by the call
C6_Witness ==
    \E t \in Threads :
        /\ Done(t) /\ found[t] = Some(<< TRUE, TRUE >>) /\ files_quiet[t]
        /\ operator_ops > 0 /\ generations = 0
        /\ outcome[t] = "inserted"
        /\ result[t][1].chain = << PinnedDer >>

\* C7: a call whose hello presents no server name returns absence at once,
\* whatever the tiers hold, and leaves both tiers and the disk unchanged.
C7_MissingServerName ==
    [][\A t \in Threads :
          (CallBegins(t) /\ client_hello'[t] = None)
          => /\ pc'[t] = "done" /\ result'[t] = None /\ outcome'[t] = "no_sni"
             /\ UNCHANGED << resolver, disk >>]_vars

\* such a call has returned while the authority tier holds a bundle
C7_Witness ==
    \E t \in Threads :
        /\ pc[t] = "done" /\ client_hello[t] = None /\ outcome[t] = "no_sni"
        /\ enable_lets_encrypt
        /\ \E h \in Hosts : lets_encrypt_signed_certs[h] # None

\* C8: a call for h that begins after a call for h has succeeded through the
\* disk path is answered from a cache tier: it never stands at a step that
\* creates the directory, checks existence, generates, reads or writes a
\* file, or inserts into a tier.
C8_CacheHitNoSideEffects ==
    \A t \in Threads :
        (server_name[t] # None /\ after_disk[t])
        => /\ pc[t] \in {"self_signed_lookup", "done"}
           /\ pc[t] = "done" => FromCache(t) /\ result[t] # None

C8_Witness ==
    \E t \in Threads :
        /\ Done(t) /\ after_disk[t] /\ outcome[t] = "ss_hit"
        /\ result[t] = self_signed_cert_cache[HostOf(t)]

\* C11: every call that has begun returns (a bundle or absence), whatever the
\* authority integration and the other calls do or fail to do; and a call for
\* h that begins with issuance enabled and no authority bundle for h goes on
\* to the self-signed lookup.
C11_NoWaitingOnIssuance ==
    /\ \A t \in Threads : (~Free(t)) ~> (pc[t] = "done")
    /\ [][\A t \in Threads :
            (CallBegins(t) /\ client_hello'[t] # None /\ enable_lets_encrypt
                /\ lets_encrypt_signed_certs[client_hello'[t][1]] = None)
            => pc'[t] = "self_signed_lookup"]_vars

\* issuance enabled, nothing ever issued for h, and the call has been served
\* through the disk path
C11_Witness ==
    \E t \in Threads :
        /\ Done(t) /\ enable_lets_encrypt
        /\ lets_encrypt_signed_certs[HostOf(t)] = None
        /\ outcome[t] = "inserted" /\ result[t] # None

\* C12: a call that returns absence changes neither tier, in the step that
\* returns and in every step before it (the only step of resolve that changes
\* a tier is the one that returns the bundle it inserted); nothing records the
\* failure, so a later lookup for h that finds the self-signed tier empty goes
\* on to the disk path again.
C12_FailureCachesNothing ==
    [][\A t \in Threads :
          /\ (pc[t] # "done" /\ pc'[t] = "done" /\ result'[t] = None) => UNCHANGED tiers
          /\ CallBegins(t) => UNCHANGED tiers
          /\ (~Free(t) /\ pc'[t] # pc[t] /\ tiers' # tiers)
                => pc'[t] = "done" /\ result'[t] # None
          /\ (pc[t] = "self_signed_lookup" /\ pc'[t] # pc[t] /\ failed[HostOf(t)]
                /\ self_signed_cert_cache[HostOf(t)] = None)
                => pc'[t] = "create_dir_all"]_vars

\* the first call for h returned absence, both tiers are empty for h, and the
\* second call (in the same context, the other was never used) is on the
\* disk path again
C12_Witness ==
    \E h \in Hosts :
        /\ failed[h] /\ calls = 2 /\ pc[2] = "idle"
        /\ server_name[1] = Some(h) /\ pc[1] = "create_dir_all"
        /\ self_signed_cert_cache[h] = None /\ lets_encrypt_signed_certs[h] = None

\* the call in context t has generated and has not yet returned: it is at one
\* of its file writes, at the reads that follow them, or at the insert
InFlight(t) == ~Free(t) /\ cert[t] # 0

\* C13: among the calls for one hostname, at most one at a time is between
\* the start of generation and the completion of its writes and its insert.
C13_SingleGenerationInFlight ==
    \A t, u \in Threads :
        (InFlight(t) /\ InFlight(u) /\ server_name[t] = server_name[u]) => t = u

\* the call in context t began when neither file of its host existed and has
\* missed both cache tiers
FirstMiss(t) ==
    /\ server_name[t] # None /\ Neither(entry[t])
    /\ pc[t] \notin {"idle", "self_signed_lookup"} /\ ~FromCache(t)

\* C14: when the calls of all contexts are first misses of the same hostname,
\* running concurrently, and no operation has failed and no operator has
\* touched the files, every one of them that has returned found neither file,
\* generated, inserted, and returned a bundle.
C14_ConcurrentFirstMissHarmless ==
    (/\ faults = 0 /\ operator_ops = 0
     /\ \A t, u \in Threads : FirstMiss(t) /\ server_name[t] = server_name[u])
    => \A t \in Threads :
           Done(t) => /\ result[t] # None /\ outcome[t] = "inserted"
                      /\ found[t] = Some(<< FALSE, FALSE >>)

\* C15: in each tier a lookup of h returns the bundle of the most recent
\* insert for h, after any sequence of inserts and calls; and a call for h made
\* with issuance enabled after the most recent authority insert for h (none
\* since it began) has returned that bundle, not an older one.
C15_ReplaceOnInsert ==
    \A h \in Hosts :
        /\ get_lets_encrypt_signed_cert_from_mem_cache(h) = last_issued_insert[h]
        /\ get_self_signed_cert_from_cache(h) = last_self_signed_insert[h]
        /\ \A t \in Threads :
               (server_name[t] = Some(h) /\ enable_lets_encrypt /\ issued_quiet[t]
                   /\ last_issued_insert[h] # None)
               => pc[t] = "done" /\ result[t] = last_issued_insert[h]

\* the renewal was installed over the first authority bundle and a later call
\* returned the renewal; in the self-signed tier an insert from outside has
\* replaced the bundle an earlier resolve inserted
C15_Witness ==
    \E t \in Threads :
        /\ Done(t) /\ enable_lets_encrypt /\ issued_quiet[t] /\ outcome[t] = "le_hit"
        /\ result[t] # None /\ result[t][1].key = IssuedDerB
        /\ disk_served[HostOf(t)]
        /\ self_signed_cert_cache[HostOf(t)] # None
        /\ self_signed_cert_cache[HostOf(t)][1].arc = "ss_insert"

\* C16: no step removes a hostname from a tier: a hostname present in the
\* self-signed tier or in the authority tier is present after every step,
\* whichever call, insert or operator change the step is.
C16_NoEviction ==
    [][\A h \in Hosts :
          /\ self_signed_cert_cache[h] # None => self_signed_cert_cache'[h] # None
          /\ lets_encrypt_signed_certs[h] # None => lets_encrypt_signed_certs'[h] # None]_vars

\* both tiers still hold h after all calls have returned, although an
\* operator has removed the files the self-signed entry was loaded from
C16_Witness ==
    \E h \in Hosts :
        /\ self_signed_cert_cache[h] # None /\ self_signed_cert_cache[h][1].arc = "resolve"
        /\ lets_encrypt_signed_certs[h] # None
        /\ Neither(Record(h)) /\ operator_ops > 0
        /\ calls = MaxCalls /\ \A t \in Threads : Free(t)

\* the call in context t suffered the partial write and the files of its host
\* are still as that failure left them
LeftPartial(t) ==
    /\ server_name[t] # None /\ partial_write[t] # "-"
    /\ partial[HostOf(t)] = partial_write[t]

\* the call in context u began with the files as the partial write left them
AfterPartial(u, kind) ==
    /\ server_name[u] # None /\ partial_write[u] = "-"
    /\ partial[HostOf(u)] = kind /\ entry[u] = Record(HostOf(u))

\* C17 as stated: after a call has written its certificate file and its key
\* write has failed, exactly one of the two files exists, the call fails, and
\* every later call that is not served from a cache tier fails as an
\* inconsistent record without generating.
C17_AsStated ==
    /\ \A t \in Threads :
           (LeftPartial(t) /\ Done(t))
           => ExactlyOne(Record(HostOf(t))) /\ result[t] = None
    /\ \A u \in Threads :
           (Done(u) /\ ~FromCache(u) /\ ~faulted[u]
               /\ (AfterPartial(u, "no_key") \/ AfterPartial(u, "empty_key")))
           => outcome[u] = "inconsistent_record"

\* C17, amended: when the certificate file is written and the key file cannot
\* be created, the disk holds the certificate file alone; when the key file is
\* created and its content cannot be written, the disk holds both files, the
\* key file empty. Either way that call fails, and while the files stay as
\* they were left no later call generates; a later call returns absence unless
\* a cache tier serves it: as an inconsistent record in the first case, at the
\* key parse in the second (or earlier, if one of its own operations fails).
C17_PartialWrite ==
    /\ \A t \in Threads :
           LeftPartial(t)
           => /\ cert_file[HostOf(t)] # None
              /\ partial_write[t] = "no_key" => key_file[HostOf(t)] = None
              /\ partial_write[t] = "empty_key" => key_file[HostOf(t)] = Some(<< >>)
              /\ pc[t] \in {"read_cert", "read_key", "done"}
              /\ pc[t] = "done" => result[t] = None
    /\ \A u \in Threads :
           (AfterPartial(u, "no_key") \/ AfterPartial(u, "empty_key"))
           => /\ cert[u] = 0 /\ pc[u] \notin GenerateSteps \cup {"insert"}
              /\ (pc[u] = "done" /\ ~FromCache(u))
                   => /\ result[u] = None
                      /\ ~faulted[u]
                           => outcome[u] = IF partial[HostOf(u)] = "no_key"
                                           THEN "inconsistent_record"
                                           ELSE "read_key_failed"

\* the first call generated, wrote cert.pem, could not create key.pem and
\* failed; the next call found the certificate alone and failed as an
\* inconsistent record, with one generation in all
C17_Witness ==
    \E u \in Threads :
        /\ AfterPartial(u, "no_key") /\ Done(u)
        /\ outcome[u] = "inconsistent_record" /\ result[u] = None
        /\ failed[HostOf(u)] /\ generations = 1
        /\ self_signed_cert_cache[HostOf(u)] = None

\* the key of the bundle is the one made together with its leaf certificate
\* (a certificate and its key carry the same origin and number)
KeyMatchesLeaf(b) == b.chain # << >> /\ b.key = b.chain[1]

\* C18: every bundle that resolve has inserted into the self-signed tier, and
\* every bundle a call has returned, pairs its chain with the key generated
\* together with the chain's leaf certificate (stated for the behaviours in
\* which no operation fails and no operator touches the files, so that only
\* the interleaving of the calls is at play).
C18_KeyMatchesCertificate ==
    (faults = 0 /\ operator_ops = 0) =>
    /\ \A h \in Hosts :
           (self_signed_cert_cache[h] # None /\ self_signed_cert_cache[h][1].arc = "resolve")
           => KeyMatchesLeaf(self_signed_cert_cache[h][1])
    /\ \A t \in Threads :
           (pc[t] = "done" /\ result[t] # None) => KeyMatchesLeaf(result[t][1])

\* C19: whenever no call is in progress, no operation has failed, no operator
\* has changed the files, and the self-signed tier holds for h an entry that
\* resolve inserted, the chain and the key of that entry are what the codec
\* reads out of h's certificate file and key file as they are now.
C19_CacheAgreesWithDiskAtRest ==
    \A h \in Hosts :
        (/\ \A t \in Threads : Free(t)
         /\ faults = 0 /\ operator_ops = 0
         /\ self_signed_cert_cache[h] # None
         /\ self_signed_cert_cache[h][1].arc = "resolve")
        => LoadedFrom(self_signed_cert_cache[h][1], Record(h))

\* C20: no step of a resolve call (its beginning or any later step, whatever
\* it returns and whatever the setting) changes the authority tier; the tier
\* changes only in a step of the authority insert operation.
C20_ResolveLeavesAuthorityTier ==
    [][/\ \A t \in Threads :
             (CallBegins(t) \/ pc'[t] # pc[t]) => UNCHANGED lets_encrypt_signed_certs
       /\ lets_encrypt_signed_certs' # lets_encrypt_signed_certs
             => \E h \in Hosts, b \in IssuedBundles :
                    /\ InstallIssued(h, b)
                    /\ lets_encrypt_signed_certs' =
                           [lets_encrypt_signed_certs EXCEPT ![h] = Some(b)]]_vars

\* all calls have returned, one with absence and one through the disk path
\* with its insert, and the authority tier holds exactly the bundle that was
\* installed, under a resolver that never consults it
C20_Witness ==
    \E h \in Hosts :
        /\ calls = MaxCalls /\ \A t \in Threads : Free(t)
        /\ ~enable_lets_encrypt
        /\ failed[h] /\ disk_served[h]
        /\ lets_encrypt_signed_certs[h] # None
        /\ lets_encrypt_signed_certs[h] = last_issued_insert[h]
        /\ lets_encrypt_signed_certs[h][1].arc = "le_insert"

====
